---- MODULE Spec2Model ----
(***************************************************************************)
(* Health-care backend: the specialty reconciliation of the doctor        *)
(* profile writer (createDoctor, updateIntoDB), the doctor availability   *)
(* manager (insertIntoDB, deleteFromDB of DoctorScheduleService) and the   *)
(* slot generation of ScheduleService.insertIntoDb, over the Prisma        *)
(* tables they read and write.                                             *)
(***************************************************************************)
EXTENDS Integers, Sequences, FiniteSets, TLC

VARIABLES
    users,              \* table users: the set of e-mails that have a user row
    doctors,            \* table doctors: rows [id, email, isDeleted, appointmentFee]
    specialties,        \* table specialties: the ids of the Specialties rows
    doctorSpecialties,  \* table doctor_specialties: rows [specialitiesId, doctorId]
    schedules,          \* table schedules: rows [id, startDateTime, endDateTime]
    doctorSchedules,    \* table doctor_schedules: rows [doctorId, scheduleId, isBooked, appointmentId]
    last,               \* the createDoctor / updateIntoDB call that has just completed
    asg,                \* the outcome of the last DoctorScheduleService.insertIntoDB call
    del,                \* the DoctorScheduleService.deleteFromDB calls in progress, per caller
    gen,                \* the ScheduleService.insertIntoDb calls in progress, per caller
    upd                 \* the updateIntoDB calls in progress, per caller, when run step by step

vars == <<users, doctors, specialties, doctorSpecialties, schedules,
          doctorSchedules, last, asg, del, gen, upd>>

(***************************************************************************)
(* Bounds of the model.                                                    *)
(***************************************************************************)
\* longest id array a request payload carries
MaxLen == 2
\* most ids one update payload carries over its two arrays
MaxIds == 3
\* number of loop iterations whose history is recorded (the loops themselves are not cut)
MaxHist == 3

(***************************************************************************)
(* Arrays.                                                                 *)
(***************************************************************************)
Seqs(S) == UNION {[1..n -> S] : n \in 0..MaxLen}
Range(s) == {s[i] : i \in 1..Len(s)}
NoDup(s) == \A i, j \in 1..Len(s) : s[i] = s[j] => i = j
\* a history that records at most MaxHist entries
Record(h, x) == IF Len(h) < MaxHist THEN Append(h, x) ELSE h

(***************************************************************************)
(* Identifiers and request values.                                         *)
(***************************************************************************)
Emails == {"e1", "e2", "e3", "e4"}
DoctorIds == {1, 2, 3}
SpecialtyIds == {"sp1", "sp2", "spX"}
\* the appointmentFee of a created profile, and the one an update patches in
CreateFee == {500}
PatchFee == {700}
NoErr == "none"
\* an update payload without profile fields: Object.keys(doctorData).length = 0
EmptyData == [k \in {} |-> 0]
DoctorDatas == {EmptyData} \cup {[k \in {"appointmentFee"} |-> f] : f \in PatchFee}
\* the specialties / removeSpecialties arrays of an update payload
UpdateArrays ==
    {p \in Seqs(SpecialtyIds) \X Seqs(SpecialtyIds) : Len(p[1]) + Len(p[2]) <= MaxIds}

(***************************************************************************)
(* The transaction client: the working copy of the tables a                *)
(* prisma.$transaction callback reads and writes, with the error that has  *)
(* been thrown inside it, if any.  Every step is skipped once an error is  *)
(* thrown.                                                                 *)
(***************************************************************************)
Begin(us, ds, ls) ==
    [users |-> us, doctors |-> ds, links |-> ls, err |-> NoErr, detail |-> <<>>]

Throw(tx, e, d) == [tx EXCEPT !.err = e, !.detail = d]

\* Transaction as a plain sequence of writes, which an error leaves half done
TransactionWithoutRollback(pre, tx) == tx

\* prisma.$transaction: the callback's writes are committed when it returns and
\* rolled back when it throws
Transaction(pre, tx) ==
    IF tx.err = NoErr
    THEN tx
    ELSE [pre EXCEPT !.err = tx.err, !.detail = tx.detail]

\* FindDoctorSpecialties with the doctorId condition left out of the where clause
FindDoctorSpecialtiesOfAnyDoctor(ls, doctorId, ids) ==
    {l \in ls : l.specialitiesId \in Range(ids)}

\* doctorSpecialties.findMany({where: {doctorId, specialitiesId: {in: ids}}})
FindDoctorSpecialties(ls, doctorId, ids) ==
    {l \in ls : l.doctorId = doctorId /\ l.specialitiesId \in Range(ids)}

\* specialties.findMany({where: {id: {in: ids}}})
FindSpecialties(ids) == specialties \cap Range(ids)

LinkRows(doctorId, ids) ==
    [i \in 1..Len(ids) |-> [specialitiesId |-> ids[i], doctorId |-> doctorId]]

\* doctorSpecialties.createMany({data}) without skipDuplicates: the composite
\* primary key (specialitiesId, doctorId) and the foreign key to specialties
\* are enforced by the database
CreateManyDoctorSpecialties(tx, rows) ==
    IF tx.err # NoErr THEN tx
    ELSE IF \E i \in 1..Len(rows) : rows[i].specialitiesId \notin specialties
    THEN Throw(tx, "ForeignKeyViolation", <<>>)
    ELSE IF ~NoDup(rows) \/ Range(rows) \cap tx.links # {}
    THEN Throw(tx, "UniqueViolation", <<>>)
    ELSE [tx EXCEPT !.links = @ \cup Range(rows)]

\* InvalidSpecialties that stops at the first id that is no Specialties row
InvalidSpecialtiesFirstOnly(ids) ==
    LET invalid == SelectSeq(ids, LAMBDA id : id \notin FindSpecialties(ids))
    IN IF invalid = <<>> THEN <<>> ELSE <<Head(invalid)>>

\* the ids of `ids` that are not Specialties rows, in request order
InvalidSpecialties(ids) ==
    SelectSeq(ids, LAMBDA id : id \notin FindSpecialties(ids))

(***************************************************************************)
(* updateIntoDB (doctor.service.ts)                                        *)
(***************************************************************************)
\* FindDoctorById with isDeleted: false left out of the where clause
FindDoctorByIdAnyState(ds, id) == {d \in ds : d.id = id}

\* doctor.findUniqueOrThrow({where: {id, isDeleted: false}})
FindDoctorById(ds, id) == {d \in ds : d.id = id /\ ~d.isDeleted}

\* Step 1: doctor.update({where: {id}, data: doctorData}) when doctorData has keys
UpdateDoctorData(tx, id, doctorData) ==
    IF tx.err # NoErr \/ DOMAIN doctorData = {} THEN tx
    ELSE [tx EXCEPT !.doctors =
            {IF d.id = id
             THEN [d EXCEPT !.appointmentFee = doctorData["appointmentFee"]]
             ELSE d : d \in tx.doctors}]

\* RemoveSpecialties with the existence check left out: deleteMany removes the
\* links that exist and ignores the others
RemoveSpecialtiesUnchecked(tx, doctorId, removeSpecialties) ==
    IF tx.err # NoErr \/ Len(removeSpecialties) = 0 THEN tx
    ELSE [tx EXCEPT !.links =
            @ \ FindDoctorSpecialties(tx.links, doctorId, removeSpecialties)]

\* Step 2: remove specialties
RemoveSpecialties(tx, doctorId, removeSpecialties) ==
    IF tx.err # NoErr \/ Len(removeSpecialties) = 0 THEN tx
    ELSE LET existingDoctorSpecialties ==
                 FindDoctorSpecialties(tx.links, doctorId, removeSpecialties)
             foundIds == {ds.specialitiesId : ds \in existingDoctorSpecialties}
             notFound == SelectSeq(removeSpecialties, LAMBDA id : id \notin foundIds)
         IN IF Cardinality(existingDoctorSpecialties) # Len(removeSpecialties)
            THEN Throw(tx, "InvalidReference", notFound)
            ELSE [tx EXCEPT !.links = @ \ existingDoctorSpecialties]

\* NewSpecialties with the duplicate check left out
NewSpecialtiesUnfiltered(ls, doctorId, ids) == ids

\* the ids of `ids` the doctor does not hold yet, in request order
NewSpecialties(ls, doctorId, ids) ==
    LET currentSpecialtyIds ==
            {ds.specialitiesId : ds \in FindDoctorSpecialties(ls, doctorId, ids)}
    IN SelectSeq(ids, LAMBDA id : id \notin currentSpecialtyIds)

\* Step 3: add specialties
AddSpecialties(tx, doctorId, ids) ==
    IF tx.err # NoErr \/ Len(ids) = 0 THEN tx
    ELSE IF Len(InvalidSpecialties(ids)) > 0
    THEN Throw(tx, "InvalidReference", InvalidSpecialties(ids))
    ELSE LET newSpecialties == NewSpecialties(tx.links, doctorId, ids)
         IN IF Len(newSpecialties) > 0
            THEN CreateManyDoctorSpecialties(tx, LinkRows(doctorId, newSpecialties))
            ELSE tx

\* UpdateBody with the add step placed before the remove step
UpdateBodyAddFirst(tx, id, doctorData, ids, removeSpecialties) ==
    RemoveSpecialties(
        AddSpecialties(UpdateDoctorData(tx, id, doctorData), id, ids),
        id, removeSpecialties)

\* the callback handed to prisma.$transaction
UpdateBody(tx, id, doctorData, ids, removeSpecialties) ==
    AddSpecialties(
        RemoveSpecialties(UpdateDoctorData(tx, id, doctorData), id, removeSpecialties),
        id, ids)

\* UpdateOutcome with the profile update issued on the global client, outside
\* the transaction
UpdateOutcomePatchOutside(us, ds, ls, id, doctorData, ids, removeSpecialties) ==
    LET pre == Begin(us, ds, ls)
        patched == UpdateDoctorData(pre, id, doctorData)
    IN IF FindDoctorById(ds, id) = {}
       THEN Throw(pre, "NotFound", <<>>)
       ELSE Transaction(patched,
                AddSpecialties(RemoveSpecialties(patched, id, removeSpecialties),
                               id, ids))

\* the whole call on tables (us, ds, ls): the tables it leaves and its error
UpdateOutcome(us, ds, ls, id, doctorData, ids, removeSpecialties) ==
    LET pre == Begin(us, ds, ls)
    IN IF FindDoctorById(ds, id) = {}
       THEN Throw(pre, "NotFound", <<>>)
       ELSE Transaction(pre, UpdateBody(pre, id, doctorData, ids, removeSpecialties))

\* Step 4: doctor.findUnique({where: {id}, include: {doctorSpecialties}})
ReadDoctor(ds, ls, id) ==
    [doctor |-> {d \in ds : d.id = id},
     doctorSpecialties |-> {l \in ls : l.doctorId = id}]

Idle ==
    [op |-> "none", id |-> 0, email |-> "", data |-> EmptyData,
     add |-> <<>>, rem |-> <<>>,
     pre |-> [users |-> {}, doctors |-> {}, links |-> {}],
     err |-> NoErr, detail |-> <<>>,
     result |-> [doctor |-> {}, doctorSpecialties |-> {}]]

UpdateIntoDB(id, doctorData, ids, removeSpecialties) ==
    LET out == UpdateOutcome(users, doctors, doctorSpecialties,
                             id, doctorData, ids, removeSpecialties)
    IN /\ last.op = "none"
       /\ users' = out.users
       /\ doctors' = out.doctors
       /\ doctorSpecialties' = out.links
       /\ last' = [op |-> "update", id |-> id, email |-> "", data |-> doctorData,
                   add |-> ids, rem |-> removeSpecialties,
                   pre |-> [users |-> users, doctors |-> doctors,
                            links |-> doctorSpecialties],
                   err |-> out.err, detail |-> out.detail,
                   result |-> IF out.err = NoErr
                              THEN ReadDoctor(out.doctors, out.links, id)
                              ELSE Idle.result]
       /\ UNCHANGED <<specialties, schedules, doctorSchedules, asg, del, gen, upd>>

(***************************************************************************)
(* createDoctor (user.sevice.ts)                                           *)
(***************************************************************************)
\* the id (a fresh uuid) the database gives the next doctor row
NewDoctorId(ds) == 1 + Cardinality(ds)

\* Step 1: user.create({data: userData}); users.email is unique
CreateUser(tx, email) ==
    IF tx.err # NoErr THEN tx
    ELSE IF email \in tx.users
    THEN Throw(tx, "UniqueViolation", <<>>)
    ELSE [tx EXCEPT !.users = @ \cup {email}]

\* Step 2: doctor.create({data: doctorData}); doctors.email is unique
CreateDoctorRow(tx, id, email, fee) ==
    IF tx.err # NoErr THEN tx
    ELSE IF \E d \in tx.doctors : d.email = email
    THEN Throw(tx, "UniqueViolation", <<>>)
    ELSE [tx EXCEPT !.doctors = @ \cup
            {[id |-> id, email |-> email, isDeleted |-> FALSE,
              appointmentFee |-> fee]}]

\* Step 3: create doctor specialties if provided
CreateSpecialties(tx, doctorId, ids) ==
    IF tx.err # NoErr \/ Len(ids) = 0 THEN tx
    ELSE IF Len(InvalidSpecialties(ids)) > 0
    THEN Throw(tx, "InvalidReference", InvalidSpecialties(ids))
    ELSE CreateManyDoctorSpecialties(tx, LinkRows(doctorId, ids))

\* the callback handed to prisma.$transaction
CreateBody(tx, id, email, fee, ids) ==
    CreateSpecialties(CreateDoctorRow(CreateUser(tx, email), id, email, fee), id, ids)

CreateOutcome(us, ds, ls, email, fee, ids) ==
    LET pre == Begin(us, ds, ls)
    IN Transaction(pre, CreateBody(pre, NewDoctorId(ds), email, fee, ids))

CreateDoctor(email, fee, ids) ==
    LET out == CreateOutcome(users, doctors, doctorSpecialties, email, fee, ids)
        id == NewDoctorId(doctors)
    IN /\ last.op = "none"
       /\ users' = out.users
       /\ doctors' = out.doctors
       /\ doctorSpecialties' = out.links
       /\ last' = [op |-> "create", id |-> id, email |-> email,
                   data |-> [k \in {"appointmentFee"} |-> fee],
                   add |-> ids, rem |-> <<>>,
                   pre |-> [users |-> users, doctors |-> doctors,
                            links |-> doctorSpecialties],
                   err |-> out.err, detail |-> out.detail,
                   result |-> IF out.err = NoErr
                              THEN ReadDoctor(out.doctors, out.links, id)
                              ELSE Idle.result]
       /\ UNCHANGED <<specialties, schedules, doctorSchedules, asg, del, gen, upd>>

\* the call returns its result (or its error) to the controller; the next
\* request is served after it
Respond ==
    /\ last.op # "none"
    /\ last' = Idle
    /\ UNCHANGED <<users, doctors, specialties, doctorSpecialties, schedules,
                   doctorSchedules, asg, del, gen, upd>>

NoCalls == [c \in {} |-> 0]
\* the last call of insertIntoDB: its arguments, the error it threw with the
\* ids the error lists, and the count createMany returned
NoAssign ==
    [err |-> NoErr, detail |-> <<>>, count |-> 0, email |-> "", scheduleIds |-> <<>>]

\* doctor 1 is active and holds sp1, doctor 2 is soft-deleted, e3 is the user
\* row of a patient, e4 is free
InitDoctor ==
    /\ users = {"e1", "e2", "e3"}
    /\ doctors = {[id |-> 1, email |-> "e1", isDeleted |-> FALSE, appointmentFee |-> 500],
                  [id |-> 2, email |-> "e2", isDeleted |-> TRUE, appointmentFee |-> 500]}
    /\ specialties = {"sp1", "sp2"}
    /\ doctorSpecialties = {[specialitiesId |-> "sp1", doctorId |-> 1]}
    /\ schedules = {}
    /\ doctorSchedules = {}
    /\ last = Idle
    /\ asg = NoAssign
    /\ del = NoCalls
    /\ gen = NoCalls
    /\ upd = NoCalls

NextDoctor ==
    \/ \E id \in DoctorIds, doctorData \in DoctorDatas, p \in UpdateArrays :
          UpdateIntoDB(id, doctorData, p[1], p[2])
    \/ \E email \in Emails, fee \in CreateFee, ids \in Seqs(SpecialtyIds) :
          CreateDoctor(email, fee, ids)
    \/ Respond

SpecDoctor == InitDoctor /\ [][NextDoctor]_vars

(***************************************************************************)
(* updateIntoDB step by step, for requests that carry only `specialties`   *)
(* (no profile field, no removeSpecialties), so that the awaits of two     *)
(* requests interleave.  The transaction runs at the database's default    *)
(* isolation (read committed): its reads see the committed rows, its rows  *)
(* are `pending` until it commits, and an insert of a key that another     *)
(* open transaction has pending waits for that transaction to end.         *)
(***************************************************************************)
UpdCallers == {"u1", "u2"}
UpdIdle ==
    [pc |-> "idle", id |-> 0, specialties |-> <<>>, newSpecialties |-> <<>>,
     pending |-> {}, err |-> NoErr, detail |-> <<>>, result |-> {}]

\* the transaction is rolled back and the error is thrown to the caller
UpdFail(r, e, d) ==
    [r EXCEPT !.pc = "failed", !.pending = {}, !.err = e, !.detail = d]

\* doctor.findUniqueOrThrow, then the transaction is opened; Step 3 is
\* skipped for an empty array
UpdFindDoctor(c, id, ids) ==
    /\ upd[c].pc = "idle"
    /\ upd' = [upd EXCEPT ![c] =
            IF FindDoctorById(doctors, id) = {}
            THEN UpdFail([UpdIdle EXCEPT !.id = id, !.specialties = ids], "NotFound", <<>>)
            ELSE [UpdIdle EXCEPT !.pc = IF Len(ids) > 0 THEN "validate" ELSE "commit",
                                 !.id = id, !.specialties = ids]]
    /\ UNCHANGED <<users, doctors, specialties, doctorSpecialties, schedules,
                   doctorSchedules, last, asg, del, gen>>

\* Step 3: verify all specialties exist in the Specialties table
UpdValidate(c) ==
    /\ upd[c].pc = "validate"
    /\ upd' = [upd EXCEPT ![c] =
            IF Len(InvalidSpecialties(@.specialties)) > 0
            THEN UpdFail(@, "InvalidReference", InvalidSpecialties(@.specialties))
            ELSE [@ EXCEPT !.pc = "filter"]]
    /\ UNCHANGED <<users, doctors, specialties, doctorSpecialties, schedules,
                   doctorSchedules, last, asg, del, gen>>

\* Step 3: check for duplicates against the rows committed so far
UpdFilter(c) ==
    /\ upd[c].pc = "filter"
    /\ LET newSpecialties == NewSpecialties(doctorSpecialties, upd[c].id, upd[c].specialties)
       IN upd' = [upd EXCEPT ![c] =
            [@ EXCEPT !.pc = IF Len(newSpecialties) > 0 THEN "insert" ELSE "commit",
                      !.newSpecialties = newSpecialties]]
    /\ UNCHANGED <<users, doctors, specialties, doctorSpecialties, schedules,
                   doctorSchedules, last, asg, del, gen>>

\* Step 3: doctorSpecialties.createMany.  The statement waits while another
\* open transaction has one of its keys pending; a key that is committed
\* (or is twice in the statement) violates the composite primary key.
UpdCreateMany(c) ==
    /\ upd[c].pc = "insert"
    /\ LET rows == LinkRows(upd[c].id, upd[c].newSpecialties)
           out == CreateManyDoctorSpecialties(Begin(users, doctors, doctorSpecialties), rows)
       IN /\ \A o \in DOMAIN upd \ {c} : upd[o].pending \cap Range(rows) = {}
          /\ upd' = [upd EXCEPT ![c] =
                IF out.err # NoErr
                THEN UpdFail(@, out.err, out.detail)
                ELSE [@ EXCEPT !.pc = "commit", !.pending = Range(rows)]]
    /\ UNCHANGED <<users, doctors, specialties, doctorSpecialties, schedules,
                   doctorSchedules, last, asg, del, gen>>

\* the callback returns and prisma.$transaction commits
UpdCommit(c) ==
    /\ upd[c].pc = "commit"
    /\ doctorSpecialties' = doctorSpecialties \cup upd[c].pending
    /\ upd' = [upd EXCEPT ![c] = [@ EXCEPT !.pc = "read", !.pending = {}]]
    /\ UNCHANGED <<users, doctors, specialties, schedules,
                   doctorSchedules, last, asg, del, gen>>

\* Step 4: return the updated doctor with its specialties
UpdRead(c) ==
    /\ upd[c].pc = "read"
    /\ upd' = [upd EXCEPT ![c] =
            [@ EXCEPT !.pc = "done",
                      !.result = ReadDoctor(doctors, doctorSpecialties, upd[c].id).doctorSpecialties]]
    /\ UNCHANGED <<users, doctors, specialties, doctorSpecialties, schedules,
                   doctorSchedules, last, asg, del, gen>>

\* the call returns its result, or its error, to the controller
UpdReturn(c) ==
    /\ upd[c].pc \in {"done", "failed"}
    /\ upd' = [upd EXCEPT ![c] = UpdIdle]
    /\ UNCHANGED <<users, doctors, specialties, doctorSpecialties, schedules,
                   doctorSchedules, last, asg, del, gen>>

InitDoctorConcurrent ==
    /\ users = {"e1", "e2", "e3"}
    /\ doctors = {[id |-> 1, email |-> "e1", isDeleted |-> FALSE, appointmentFee |-> 500],
                  [id |-> 2, email |-> "e2", isDeleted |-> TRUE, appointmentFee |-> 500]}
    /\ specialties = {"sp1", "sp2"}
    /\ doctorSpecialties = {[specialitiesId |-> "sp1", doctorId |-> 1]}
    /\ schedules = {}
    /\ doctorSchedules = {}
    /\ last = Idle
    /\ asg = NoAssign
    /\ del = NoCalls
    /\ gen = NoCalls
    /\ upd = [c \in UpdCallers |-> UpdIdle]

NextDoctorConcurrent ==
    \/ \E c \in UpdCallers, id \in DoctorIds, ids \in Seqs(SpecialtyIds) :
          UpdFindDoctor(c, id, ids)
    \/ \E c \in UpdCallers : UpdValidate(c)
    \/ \E c \in UpdCallers : UpdFilter(c)
    \/ \E c \in UpdCallers : UpdCreateMany(c)
    \/ \E c \in UpdCallers : UpdCommit(c)
    \/ \E c \in UpdCallers : UpdRead(c)
    \/ \E c \in UpdCallers : UpdReturn(c)

SpecDoctorConcurrent == InitDoctorConcurrent /\ [][NextDoctorConcurrent]_vars

(***************************************************************************)
(* Dates.  A Date is its number of minutes since 2024-01-01T00:00 (the     *)
(* server runs in UTC), or InvalidDate, the Date whose time value is NaN.  *)
(***************************************************************************)
InvalidDate == -1
MinutesPerDay == 1440
\* days of 2024 before the first day of month m
DaysBefore(m) ==
    <<0, 31, 60, 91, 121, 152, 182, 213, 244, 274, 305, 335>>[m]
DaysIn(m) == <<31, 29, 31, 30, 31, 30, 31, 31, 30, 31, 30, 31>>[m]
\* the Date of month mo, day d, hh:mi
DateTime(mo, d, hh, mi) ==
    (DaysBefore(mo) + d - 1) * MinutesPerDay + hh * 60 + mi

\* Date.prototype.getTime() components in UTC
DayOfYear(t) == t \div MinutesPerDay
MonthOf(t) ==
    CHOOSE m \in 1..12 :
        DaysBefore(m) <= DayOfYear(t) /\ DayOfYear(t) < DaysBefore(m) + DaysIn(m)
DayOfMonth(t) == DayOfYear(t) - DaysBefore(MonthOf(t)) + 1
MinuteOf(t) == t % 60

\* a < b and a <= b on Dates: false as soon as one of them is invalid (NaN)
DateLt(a, b) == a # InvalidDate /\ b # InvalidDate /\ a < b
DateLe(a, b) == a # InvalidDate /\ b # InvalidDate /\ a <= b

\* date-fns addMinutes, addHours
AddMinutes(t, n) == IF t = InvalidDate THEN InvalidDate ELSE t + n
AddHours(t, n) == IF t = InvalidDate THEN InvalidDate ELSE t + 60 * n

\* date-fns format(t, "yyyy-mm-dd"): yyyy is the year, mm the minute of the
\* hour, dd the day of the month
FormatYyyyMmDd(t) == [yyyy |-> 2024, mm |-> MinuteOf(t), dd |-> DayOfMonth(t)]

\* the Date date-fns makes of the string "yyyy-mm-dd" (new Date(string)): the
\* middle field is read as the month
ParseDateString(str) ==
    IF str.mm \in 1..12 /\ str.dd \in 1..DaysIn(str.mm)
    THEN DateTime(str.mm, str.dd, 0, 0)
    ELSE InvalidDate

\* "HH:MM".split(":"), as <<HH, MM>>
Hours(time) == time[1]
Minutes(time) == time[2]

(***************************************************************************)
(* DoctorScheduleService (doctorSchedule.service.ts)                       *)
(***************************************************************************)
ScheduleIds == {1, 2, 3}
NoRow == [doctorId |-> 0, scheduleId |-> 0, isBooked |-> FALSE, appointmentId |-> 0]

\* FindDoctorByEmail with the where clause left out: the first doctor row
FindDoctorIgnoringEmail(email) == {d \in doctors : d.id = 1}

\* doctor.findUnique({where: {email}})
FindDoctorByEmail(email) == {d \in doctors : d.email = email}

\* the doctor_schedules row of the composite key (doctorId, scheduleId)
FindLink(doctorId, scheduleId) ==
    {l \in doctorSchedules : l.doctorId = doctorId /\ l.scheduleId = scheduleId}

\* NewLinks with isBooked defaulting to true
NewLinksBookedByDefault(doctorId, scheduleIds) ==
    {[doctorId |-> doctorId, scheduleId |-> id, isBooked |-> TRUE, appointmentId |-> 0] :
        id \in {x \in Range(scheduleIds) : FindLink(doctorId, x) = {}}}

\* NewLinks with skipDuplicates left out and no key enforced: a row for
\* every id of the request
NewLinksWithoutSkip(doctorId, scheduleIds) ==
    {[doctorId |-> doctorId, scheduleId |-> id, isBooked |-> FALSE, appointmentId |-> 0] :
        id \in Range(scheduleIds)}

\* doctorSchedules.createMany({data, skipDuplicates: true}): the rows whose key
\* is not in the table yet, with the column defaults
NewLinks(doctorId, scheduleIds) ==
    {[doctorId |-> doctorId, scheduleId |-> id, isBooked |-> FALSE, appointmentId |-> 0] :
        id \in {x \in Range(scheduleIds) : FindLink(doctorId, x) = {}}}

\* insertIntoDB.  Its errors are plain Error objects that carry a fixed
\* message and list no id: "Doctor not found for this email" (NotFound) and
\* "One or more schedule IDs are invalid" (InvalidReference)
InsertIntoDB(email, scheduleIds) ==
    LET doctorData == FindDoctorByEmail(email)
        validSchedules == {sc \in schedules : sc.id \in Range(scheduleIds)}
        called == [NoAssign EXCEPT !.email = email, !.scheduleIds = scheduleIds]
    IN /\ IF doctorData = {}
          THEN /\ asg' = [called EXCEPT !.err = "NotFound"]
               /\ UNCHANGED doctorSchedules
          ELSE IF Cardinality(validSchedules) # Len(scheduleIds)
          THEN /\ asg' = [called EXCEPT !.err = "InvalidReference"]
               /\ UNCHANGED doctorSchedules
          ELSE LET created == NewLinks((CHOOSE d \in doctorData : TRUE).id, scheduleIds)
               IN /\ doctorSchedules' = doctorSchedules \cup created
                  /\ asg' = [called EXCEPT !.count = Cardinality(created)]
       /\ UNCHANGED <<users, doctors, specialties, doctorSpecialties, schedules,
                      last, del, gen, upd>>

\* insertIntoDB returns createMany's result, or its error, to the controller
AsgReturn ==
    /\ asg # NoAssign
    /\ asg' = NoAssign
    /\ UNCHANGED <<users, doctors, specialties, doctorSpecialties, schedules,
                   doctorSchedules, last, del, gen, upd>>

\* the query of a getMySchedule request: startDate and endDate (both or
\* none), isBooked ("true", "false" or absent), and the limit and skip
\* calculatePagination makes of the options
NoRange == <<>>
ListRanges == {NoRange, <<DateTime(5, 1, 9, 0), DateTime(5, 1, 9, 30)>>}
ListFilters == [range : ListRanges, isBooked : {"", "true", "false"}]
Paginations == {[limit |-> 10, skip |-> 0], [limit |-> 1, skip |-> 1]}

\* the schedule relation of a doctor_schedules row
ScheduleOf(l) == CHOOSE sc \in schedules : sc.id = l.scheduleId

\* whereConditions: the date range on the row's schedule and the equals
\* condition on isBooked; the caller (user) is not part of it
WhereConditions(filters, l) ==
    /\ filters.range # NoRange =>
          /\ ScheduleOf(l).startDateTime >= filters.range[1]
          /\ ScheduleOf(l).endDateTime <= filters.range[2]
    /\ filters.isBooked # "" => l.isBooked = (filters.isBooked = "true")

\* doctorSchedules.findMany({where: whereConditions}) without skip and take
FindMySchedules(filters) == {l \in doctorSchedules : WhereConditions(filters, l)}

\* getMySchedule(filters, options, user): findMany with skip and take, then
\* count.  No orderBy is required, so the page is any `take` rows of the
\* rows found.  The call is recorded in `last` until it is responded.
GetMySchedule(email, filters, pg) ==
    LET found == FindMySchedules(filters)
        total == Cardinality(found)
        left == IF total > pg.skip THEN total - pg.skip ELSE 0
        take == IF left < pg.limit THEN left ELSE pg.limit
    IN /\ \E result \in SUBSET found :
            /\ Cardinality(result) = take
            /\ last' = [Idle EXCEPT !.op = "getMySchedule", !.email = email,
                                    !.data = filters,
                                    !.result = [meta |-> [total |-> total,
                                                          limit |-> pg.limit],
                                                data |-> result]]
       /\ UNCHANGED <<users, doctors, specialties, doctorSpecialties, schedules,
                      doctorSchedules, asg, del, gen, upd>>

\* the booking of an appointment against a link, a write of the appointment
\* module: isBooked becomes true and the appointment's id is set
Book(doctorId, scheduleId) ==
    /\ \E l \in FindLink(doctorId, scheduleId) :
          /\ ~l.isBooked
          /\ doctorSchedules' = (doctorSchedules \ {l}) \cup
                {[l EXCEPT !.isBooked = TRUE,
                           !.appointmentId = 10 * doctorId + scheduleId]}
    /\ UNCHANGED <<users, doctors, specialties, doctorSpecialties, schedules,
                   last, asg, del, gen, upd>>

DelIdle ==
    [pc |-> "idle", email |-> "", scheduleId |-> 0, doctorId |-> 0,
     err |-> NoErr, result |-> NoRow]

\* deleteFromDB, first await: doctor.findUniqueOrThrow({where: {email}})
DelFindDoctor(c, email, scheduleId) ==
    /\ del[c].pc = "idle"
    /\ LET doctorData == FindDoctorByEmail(email)
       IN del' = [del EXCEPT ![c] =
            IF doctorData = {}
            THEN [DelIdle EXCEPT !.pc = "failed", !.email = email,
                                 !.scheduleId = scheduleId, !.err = "NotFound"]
            ELSE [DelIdle EXCEPT !.pc = "check", !.email = email,
                                 !.scheduleId = scheduleId,
                                 !.doctorId = (CHOOSE d \in doctorData : TRUE).id]]
    /\ UNCHANGED <<users, doctors, specialties, doctorSpecialties, schedules,
                   doctorSchedules, last, asg, gen, upd>>

\* doctorSchedules.findFirst({where: {doctorId, scheduleId, isBooked: true}})
FindBookedSchedule(doctorId, scheduleId) ==
    {l \in FindLink(doctorId, scheduleId) : l.isBooked}

\* DelCheck with the throw left out: the call goes on to the delete
DelCheckWithoutThrow(c) ==
    /\ del[c].pc = "check"
    /\ del' = [del EXCEPT ![c] = [@ EXCEPT !.pc = "delete"]]
    /\ UNCHANGED <<users, doctors, specialties, doctorSpecialties, schedules,
                   doctorSchedules, last, asg, gen, upd>>

\* deleteFromDB, second await: the booked check; a booked link throws
\* ApiError(BAD_REQUEST, "... the schedule is already booked!"), the
\* availability manager's Conflict
DelCheck(c) ==
    /\ del[c].pc = "check"
    /\ LET isBookedSchedule == FindBookedSchedule(del[c].doctorId, del[c].scheduleId)
       IN del' = [del EXCEPT ![c] =
            IF isBookedSchedule # {}
            THEN [@ EXCEPT !.pc = "failed", !.err = "Conflict"]
            ELSE [@ EXCEPT !.pc = "delete"]]
    /\ UNCHANGED <<users, doctors, specialties, doctorSpecialties, schedules,
                   doctorSchedules, last, asg, gen, upd>>

\* DelDelete as a deleteMany, which deletes the rows it finds and throws
\* for none
DelDeleteMany(c) ==
    /\ del[c].pc = "delete"
    /\ LET row == FindLink(del[c].doctorId, del[c].scheduleId)
       IN /\ doctorSchedules' = doctorSchedules \ row
          /\ del' = [del EXCEPT ![c] = [@ EXCEPT !.pc = "done"]]
    /\ UNCHANGED <<users, doctors, specialties, doctorSpecialties, schedules,
                   last, asg, gen, upd>>

\* deleteFromDB, third await:
\* doctorSchedules.delete({where: {doctorId_scheduleId: {doctorId, scheduleId}}}),
\* which throws when no row has the key and returns the deleted row otherwise
DelDelete(c) ==
    /\ del[c].pc = "delete"
    /\ LET row == FindLink(del[c].doctorId, del[c].scheduleId)
       IN IF row = {}
          THEN /\ del' = [del EXCEPT ![c] = [@ EXCEPT !.pc = "failed", !.err = "NotFound"]]
               /\ UNCHANGED doctorSchedules
          ELSE /\ doctorSchedules' = doctorSchedules \ row
               /\ del' = [del EXCEPT ![c] =
                    [@ EXCEPT !.pc = "done", !.result = CHOOSE l \in row : TRUE]]
    /\ UNCHANGED <<users, doctors, specialties, doctorSpecialties, schedules,
                   last, asg, gen, upd>>

\* deleteFromDB returns the deleted row, or its error, to the controller
DelReturn(c) ==
    /\ del[c].pc \in {"done", "failed"}
    /\ del' = [del EXCEPT ![c] = DelIdle]
    /\ UNCHANGED <<users, doctors, specialties, doctorSpecialties, schedules,
                   doctorSchedules, last, asg, gen, upd>>

\* doctors 1 and 2 and two slots of 2024-05-01 exist; schedule id 3 is unknown
InitAvailability ==
    /\ users = {"e1", "e2", "e3"}
    /\ doctors = {[id |-> 1, email |-> "e1", isDeleted |-> FALSE, appointmentFee |-> 500],
                  [id |-> 2, email |-> "e2", isDeleted |-> FALSE, appointmentFee |-> 500]}
    /\ specialties = {"sp1", "sp2"}
    /\ doctorSpecialties = {}
    /\ schedules =
         {[id |-> 1, startDateTime |-> DateTime(5, 1, 9, 0), endDateTime |-> DateTime(5, 1, 9, 30)],
          [id |-> 2, startDateTime |-> DateTime(5, 1, 9, 30), endDateTime |-> DateTime(5, 1, 10, 0)]}
    /\ doctorSchedules = {}
    /\ last = Idle
    /\ asg = NoAssign
    /\ del = [c \in {"c1"} |-> DelIdle]
    /\ gen = NoCalls
    /\ upd = NoCalls

\* the result of the last insertIntoDB or getMySchedule call has been sent:
\* both run to their end without a step of another call in between, and the
\* model sends their response before it takes the next step
Responded == asg = NoAssign /\ last = Idle

NextAvailability ==
    \/ Responded /\ \E email \in Emails, scheduleIds \in Seqs(ScheduleIds) :
          InsertIntoDB(email, scheduleIds)
    \/ AsgReturn
    \/ Responded /\ \E email \in Emails, filters \in ListFilters, pg \in Paginations :
          GetMySchedule(email, filters, pg)
    \/ Respond
    \/ Responded /\ \E d \in DoctorIds, sc \in ScheduleIds : Book(d, sc)
    \/ Responded /\ \E c \in DOMAIN del, email \in Emails, sc \in ScheduleIds :
          DelFindDoctor(c, email, sc)
    \/ Responded /\ \E c \in DOMAIN del : DelCheck(c)
    \/ Responded /\ \E c \in DOMAIN del : DelDelete(c)
    \/ Responded /\ \E c \in DOMAIN del : DelReturn(c)

SpecAvailability == InitAvailability /\ [][NextAvailability]_vars

(***************************************************************************)
(* ScheduleService.insertIntoDb (schedule.sevice.ts)                       *)
(***************************************************************************)
intervalTime == 30
GenCallers == {"g1"}
StartDates == {DateTime(1, 1, 0, 0), DateTime(1, 1, 0, 5), DateTime(1, 2, 0, 0)}
EndDates == {DateTime(1, 1, 0, 0), DateTime(1, 2, 0, 0)}
Times == {<<9, 0>>, <<9, 30>>, <<9, 45>>, <<10, 0>>}
Payloads ==
    [startDate : StartDates, endDate : EndDates, startTime : Times, endTime : Times]

NoSlot == [startDateTime |-> InvalidDate, endDateTime |-> InvalidDate]
GenIdle ==
    [pc |-> "idle",
     payload |-> [startDate |-> InvalidDate, endDate |-> InvalidDate,
                  startTime |-> <<0, 0>>, endTime |-> <<0, 0>>],
     currentDate |-> InvalidDate, lastDate |-> InvalidDate,
     startDateTime |-> InvalidDate, endDateTime |-> InvalidDate,
     scheduleData |-> NoSlot,
     schedule |-> <<>>,
     visited |-> <<>>,      \* history: currentDate at each entry of the outer loop body
     emitted |-> <<>>]      \* history: the scheduleData of the current outer iteration

\* new Date(addMinutes(addHours(`${format(currentDate, "yyyy-mm-dd")}`, HH), MM))
DayTime(currentDate, time) ==
    AddMinutes(AddHours(ParseDateString(FormatYyyyMmDd(currentDate)), Hours(time)),
               Minutes(time))

\* the call starts: currentDate and lastDate are made of the payload
GenCall(g, payload) ==
    /\ gen[g].pc = "idle"
    /\ gen' = [gen EXCEPT ![g] =
            [GenIdle EXCEPT !.pc = "outer", !.payload = payload,
                            !.currentDate = payload.startDate,
                            !.lastDate = payload.endDate]]
    /\ UNCHANGED <<users, doctors, specialties, doctorSpecialties, schedules,
                   doctorSchedules, last, asg, del, upd>>

\* while (currentDate <= lastDate): the day's bounds are computed, or the
\* call returns the payload
GenOuter(g) ==
    /\ gen[g].pc = "outer"
    /\ gen' = [gen EXCEPT ![g] =
            IF DateLe(@.currentDate, @.lastDate)
            THEN [@ EXCEPT !.pc = "inner",
                           !.startDateTime = DayTime(gen[g].currentDate, gen[g].payload.startTime),
                           !.endDateTime = DayTime(gen[g].currentDate, gen[g].payload.endTime),
                           !.visited = Record(@, gen[g].currentDate),
                           !.emitted = <<>>]
            ELSE [@ EXCEPT !.pc = "returned"]]
    /\ UNCHANGED <<users, doctors, specialties, doctorSpecialties, schedules,
                   doctorSchedules, last, asg, del, upd>>

\* GenInner with the slot ending where the daily window ends
GenInnerToEndOfWindow(g) ==
    /\ gen[g].pc = "inner"
    /\ gen' = [gen EXCEPT ![g] =
            IF DateLt(@.startDateTime, @.endDateTime)
            THEN LET scheduleData ==
                         [startDateTime |-> gen[g].startDateTime,
                          endDateTime |-> gen[g].endDateTime]
                 IN [@ EXCEPT !.pc = "find",
                              !.scheduleData = scheduleData,
                              !.emitted = Record(@, scheduleData)]
            ELSE [@ EXCEPT !.pc = "outer"]]
    /\ UNCHANGED <<users, doctors, specialties, doctorSpecialties, schedules,
                   doctorSchedules, last, asg, del, upd>>

\* while (startDateTime < endDateTime): scheduleData is made of startDateTime,
\* or the outer loop body ends
GenInner(g) ==
    /\ gen[g].pc = "inner"
    /\ gen' = [gen EXCEPT ![g] =
            IF DateLt(@.startDateTime, @.endDateTime)
            THEN LET scheduleData ==
                         [startDateTime |-> gen[g].startDateTime,
                          endDateTime |-> AddMinutes(gen[g].startDateTime, intervalTime)]
                 IN [@ EXCEPT !.pc = "find",
                              !.scheduleData = scheduleData,
                              !.emitted = Record(@, scheduleData)]
            ELSE [@ EXCEPT !.pc = "outer"]]
    /\ UNCHANGED <<users, doctors, specialties, doctorSpecialties, schedules,
                   doctorSchedules, last, asg, del, upd>>

\* schedule.findFirst({where: scheduleData})
FindSchedule(scheduleData) ==
    {sc \in schedules : /\ sc.startDateTime = scheduleData.startDateTime
                        /\ sc.endDateTime = scheduleData.endDateTime}

\* GenFind with the result of the lookup ignored: every candidate is created
GenFindIgnoringExisting(g) ==
    /\ gen[g].pc = "find"
    /\ gen' = [gen EXCEPT ![g] = [@ EXCEPT !.pc = "create"]]
    /\ UNCHANGED <<users, doctors, specialties, doctorSpecialties, schedules,
                   doctorSchedules, last, asg, del, upd>>

\* const existingSchedule = await prisma.schedule.findFirst(...)
GenFind(g) ==
    /\ gen[g].pc = "find"
    /\ gen' = [gen EXCEPT ![g] =
            IF FindSchedule(@.scheduleData) = {}
            THEN [@ EXCEPT !.pc = "create"]
            ELSE [@ EXCEPT !.pc = "inner"]]
    /\ UNCHANGED <<users, doctors, specialties, doctorSpecialties, schedules,
                   doctorSchedules, last, asg, del, upd>>

\* const result = await prisma.schedule.create({data: scheduleData});
\* schedule.push(result)
GenCreate(g) ==
    /\ gen[g].pc = "create"
    /\ LET result == [id |-> 1 + Cardinality(schedules),
                      startDateTime |-> gen[g].scheduleData.startDateTime,
                      endDateTime |-> gen[g].scheduleData.endDateTime]
       IN /\ schedules' = schedules \cup {result}
          /\ gen' = [gen EXCEPT ![g] =
                [@ EXCEPT !.pc = "inner", !.schedule = Append(@, result)]]
    /\ UNCHANGED <<users, doctors, specialties, doctorSpecialties,
                   doctorSchedules, last, asg, del, upd>>

\* return payload
GenReturn(g) ==
    /\ gen[g].pc = "returned"
    /\ gen' = [gen EXCEPT ![g] = GenIdle]
    /\ UNCHANGED <<users, doctors, specialties, doctorSpecialties, schedules,
                   doctorSchedules, last, asg, del, upd>>

InitSchedule ==
    /\ users = {}
    /\ doctors = {}
    /\ specialties = {}
    /\ doctorSpecialties = {}
    /\ schedules = {}
    /\ doctorSchedules = {}
    /\ last = Idle
    /\ asg = NoAssign
    /\ del = NoCalls
    /\ gen = [g \in GenCallers |-> GenIdle]
    /\ upd = NoCalls

\* the steps of a call that is running
GenStep(g) == GenOuter(g) \/ GenInner(g) \/ GenFind(g) \/ GenCreate(g)

NextSchedule ==
    \/ \E g \in GenCallers, payload \in Payloads : GenCall(g, payload)
    \/ \E g \in GenCallers : GenOuter(g)
    \/ \E g \in GenCallers : GenInner(g)
    \/ \E g \in GenCallers : GenFind(g)
    \/ \E g \in GenCallers : GenCreate(g)
    \/ \E g \in GenCallers : GenReturn(g)

SpecSchedule == InitSchedule /\ [][NextSchedule]_vars

\* a call that has started keeps running: the event loop resumes it after
\* every await and nothing else can stop it
SpecScheduleFair ==
    SpecSchedule /\ \A g \in GenCallers : WF_vars(GenStep(g) \/ GenReturn(g))

\* two requests served by the same process: the steps of their calls
\* interleave at every await
ConcurrentCallers == {"g1", "g2"}
\* the payloads of the concurrent requests: ranges that start on the same day
ConcurrentPayloads ==
    [startDate : {DateTime(1, 1, 0, 5)}, endDate : EndDates,
     startTime : {<<9, 0>>, <<9, 30>>}, endTime : {<<9, 30>>, <<10, 0>>}]

InitScheduleConcurrent ==
    /\ users = {}
    /\ doctors = {}
    /\ specialties = {}
    /\ doctorSpecialties = {}
    /\ schedules = {}
    /\ doctorSchedules = {}
    /\ last = Idle
    /\ asg = NoAssign
    /\ del = NoCalls
    /\ gen = [g \in ConcurrentCallers |-> GenIdle]
    /\ upd = NoCalls

NextScheduleConcurrent ==
    \/ \E g \in ConcurrentCallers, payload \in ConcurrentPayloads : GenCall(g, payload)
    \/ \E g \in ConcurrentCallers : GenOuter(g)
    \/ \E g \in ConcurrentCallers : GenInner(g)
    \/ \E g \in ConcurrentCallers : GenFind(g)
    \/ \E g \in ConcurrentCallers : GenCreate(g)
    \/ \E g \in ConcurrentCallers : GenReturn(g)

SpecScheduleConcurrent == InitScheduleConcurrent /\ [][NextScheduleConcurrent]_vars

(***************************************************************************)
(* Properties of the specialty reconciliation (SpecDoctor).  `last` is the *)
(* call that has just completed: last.pre are the tables before it, the    *)
(* table variables are the tables after it.                                *)
(***************************************************************************)
\* the specialty ids doctor `id` holds in the link set ls
Held(ls, id) == {l.specialitiesId : l \in {x \in ls : x.doctorId = id}}

UpdateOfKnownDoctor ==
    /\ last.op = "update"
    /\ FindDoctorById(last.pre.doctors, last.id) # {}

\* C3: for a doctor D holding the set C, a duplicate-free array A of existing
\* specialty ids and a duplicate-free array R of ids of C disjoint from A,
\* updateIntoDB(D, A, R) succeeds and D holds exactly (C \ R) \cup A
\* afterwards, which is also what the call reads back.
C3_Case ==
    /\ UpdateOfKnownDoctor
    /\ NoDup(last.add) /\ NoDup(last.rem)
    /\ Range(last.add) \subseteq specialties
    /\ Range(last.rem) \subseteq Held(last.pre.links, last.id)
    /\ Range(last.add) \cap Range(last.rem) = {}

C3_ReconcileYieldsExactSet ==
    C3_Case =>
        LET want == (Held(last.pre.links, last.id) \ Range(last.rem))
                        \cup Range(last.add)
        IN /\ last.err = NoErr
           /\ Held(doctorSpecialties, last.id) = want
           /\ Held(last.result.doctorSpecialties, last.id) = want

C3_Witness ==
    /\ C3_Case
    /\ last.add # <<>> /\ last.rem # <<>>
    /\ Held(last.pre.links, last.id) \ Range(last.rem) # {}
    /\ last.err = NoErr

\* C4: an add-only update with a duplicate-free array A of existing specialty
\* ids succeeds, and the same update applied again to the tables it leaves
\* raises no error and leaves the same DoctorSpecialtyLink set.
C4_Case ==
    /\ UpdateOfKnownDoctor
    /\ last.rem = <<>>
    /\ NoDup(last.add)
    /\ Range(last.add) \subseteq specialties

C4_AddIsIdempotent ==
    C4_Case =>
        LET again == UpdateOutcome(users, doctors, doctorSpecialties,
                                   last.id, last.data, last.add, last.rem)
        IN /\ last.err = NoErr
           /\ again.err = NoErr
           /\ again.links = doctorSpecialties

C4_Witness ==
    /\ C4_Case
    /\ Range(last.add) \ Held(last.pre.links, last.id) # {}
    /\ Range(last.add) \subseteq Held(doctorSpecialties, last.id)

\* C5: a remove-only update whose array R names at least one specialty the
\* doctor does not hold fails with InvalidReference and leaves the doctor's
\* links unchanged, those of the ids of R the doctor holds included.
C5_Case ==
    /\ UpdateOfKnownDoctor
    /\ last.add = <<>>
    /\ Range(last.rem) \ Held(last.pre.links, last.id) # {}

C5_RemoveOfMissingFails ==
    C5_Case =>
        /\ last.err = "InvalidReference"
        /\ doctorSpecialties = last.pre.links

C5_Witness ==
    /\ C5_Case
    /\ Range(last.rem) \cap Held(last.pre.links, last.id) # {}
    /\ last.err = "InvalidReference"

\* C6: createDoctor with a specialty array holding at least one id that is
\* no Specialties row fails and leaves the users, doctors and
\* doctor_specialties tables as they were before the call.
C6_Case ==
    /\ last.op = "create"
    /\ Range(last.add) \ specialties # {}

C6_CreateRollsBack ==
    C6_Case =>
        /\ last.err # NoErr
        /\ users = last.pre.users
        /\ doctors = last.pre.doctors
        /\ doctorSpecialties = last.pre.links

C6_Witness ==
    /\ C6_Case
    /\ last.email \notin last.pre.users
    /\ Range(last.add) \cap specialties # {}
    /\ last.err = "InvalidReference"

\* C7: when the remove or the add step of updateIntoDB throws, the profile
\* update of the same call is rolled back with it: the doctors rows and the
\* links are those from before the call.
C7_Case ==
    /\ UpdateOfKnownDoctor
    /\ last.err # NoErr

C7_UpdateIsAllOrNothing ==
    C7_Case =>
        /\ users = last.pre.users
        /\ doctors = last.pre.doctors
        /\ doctorSpecialties = last.pre.links

C7_Witness ==
    /\ C7_Case
    /\ last.err = "InvalidReference"
    /\ DOMAIN last.data # {}
    /\ \E d \in FindDoctorById(last.pre.doctors, last.id) :
          d.appointmentFee # last.data["appointmentFee"]
    /\ last.rem # <<>>
    /\ Range(last.rem) \subseteq Held(last.pre.links, last.id)
    /\ Range(last.add) \ specialties # {}

(***************************************************************************)
(* Properties of the availability manager (SpecAvailability).              *)
(***************************************************************************)
\* C1: the booked check of deleteFromDB, run for a link (D, S) that is
\* booked, ends the call with the Conflict error and leaves the
\* doctor_schedules table as it is, the booked link (D, S) included.
C1_Case(c) ==
    /\ del[c].pc = "check"
    /\ del'[c].pc # "check"
    /\ \E l \in FindLink(del[c].doctorId, del[c].scheduleId) : l.isBooked

C1_BookedUnassignFails ==
    [][\A c \in DOMAIN del :
          C1_Case(c) =>
              /\ del'[c].pc = "failed"
              /\ del'[c].err = "Conflict"
              /\ doctorSchedules' = doctorSchedules
              /\ \E l \in FindLink(del[c].doctorId, del[c].scheduleId)' : l.isBooked]_vars

C1_Witness ==
    \E c \in DOMAIN del :
        /\ del[c].pc = "failed"
        /\ del[c].err = "Conflict"
        /\ \E l \in FindLink(del[c].doctorId, del[c].scheduleId) : l.isBooked

\* C2: whatever the interleaving of deleteFromDB with the booking write, the
\* row a deleteFromDB call deletes (and returns) is not booked.
C2_NoBookedLinkDeleted ==
    \A c \in DOMAIN del : del[c].pc = "done" => ~del[c].result.isBooked

(***************************************************************************)
(* Properties of the slot generation (SpecSchedule, SpecScheduleFair).     *)
(***************************************************************************)
\* the number of slots of a daily window: ceil((endTime - startTime) / 30)
WindowMinutes(payload) ==
    (Hours(payload.endTime) * 60 + Minutes(payload.endTime))
        - (Hours(payload.startTime) * 60 + Minutes(payload.startTime))
SlotsPerDay(payload) ==
    IF WindowMinutes(payload) <= 0 THEN 0
    ELSE (WindowMinutes(payload) + intervalTime - 1) \div intervalTime

\* startTime on the calendar day of date t
TimeOnDay(t, time) ==
    DateTime(MonthOf(t), DayOfMonth(t), Hours(time), Minutes(time))

\* the slots of the day of date t: SlotsPerDay slots of 30 minutes from startTime on
ExpectedSlots(t, payload) ==
    [i \in 1..SlotsPerDay(payload) |->
        [startDateTime |-> TimeOnDay(t, payload.startTime) + intervalTime * (i - 1),
         endDateTime |-> TimeOnDay(t, payload.startTime) + intervalTime * i]]

\* C8: every call of insertIntoDb returns, and never emits more slots for a
\* day than ceil((endTime - startTime) / 30).
C8_GenerationTerminates ==
    \A g \in GenCallers :
        /\ [](Len(gen[g].emitted) <= SlotsPerDay(gen[g].payload))
        /\ (gen[g].pc = "outer") ~> (gen[g].pc = "returned")

\* C9: the slots emitted for a day start at startTime of that day, each
\* later one starts where the one before it ends, and when the day's inner
\* loop has ended they are exactly the day's slots (09:00-10:00 gives
\* [09:00,09:30) and [09:30,10:00)).
C9_DaySlotsContiguous ==
    \A g \in DOMAIN gen :
        LET r == gen[g]
            e == r.emitted
        IN /\ Len(e) >= 1 => e[1].startDateTime = TimeOnDay(r.currentDate, r.payload.startTime)
           /\ \A i \in 2..Len(e) : e[i].startDateTime = e[i - 1].endDateTime
           /\ (r.pc = "outer" /\ r.visited # <<>>)
                 => e = ExpectedSlots(r.currentDate, r.payload)

\* the days of [startDate, endDate], as the Dates a day-by-day cursor takes
DaysOfRange(payload) ==
    [i \in 1..(IF DateLe(payload.startDate, payload.endDate)
               THEN (payload.endDate - payload.startDate) \div MinutesPerDay + 1
               ELSE 0) |->
        payload.startDate + MinutesPerDay * (i - 1)]

\* C10: the outer loop visits no day twice, and when the call returns it has
\* visited every day from startDate to endDate, in order.
C10_EachDayOnce ==
    \A g \in DOMAIN gen :
        LET r == gen[g]
        IN /\ NoDup(r.visited)
           /\ r.pc = "returned" => r.visited = DaysOfRange(r.payload)

\* a daily window or a date range that holds no slot
Degenerate(payload) ==
    \/ WindowMinutes(payload) <= 0
    \/ ~DateLe(payload.startDate, payload.endDate)

\* C11: a call of insertIntoDb whose dailyStartTime >= dailyEndTime, or whose
\* endDate < startDate, creates no slot and returns.
C11_DegenerateInputsReturn ==
    \A g \in GenCallers :
        /\ [](Degenerate(gen[g].payload) => gen[g].schedule = <<>>)
        /\ (gen[g].pc = "outer" /\ Degenerate(gen[g].payload))
               ~> (gen[g].pc = "returned")

\* two Schedule rows (or candidates) with the same interval
SameBounds(a, b) ==
    /\ a.startDateTime = b.startDateTime
    /\ a.endDateTime = b.endDateTime

C13_ConcurrentRegistrationIsUnique ==
    \A a \in schedules :
        Cardinality({b \in schedules : SameBounds(a, b)}) = 1

\* the Schedule rows of the candidate slots of the days startDate..endDate
BackingSlots(payload) ==
    {sc \in schedules :
        \E i \in 1..Len(DaysOfRange(payload)) :
            \E j \in 1..SlotsPerDay(payload) :
                SameBounds(sc, ExpectedSlots(DaysOfRange(payload)[i], payload)[j])}

\* the value insertIntoDb resolves to
GenResult(r) == r.payload

\* C14: insertIntoDb returns the Schedule rows that back the candidate
\* range, those that existed before the call and those it created, and
\* not the request payload.
C14_ReturnsBackingSlots ==
    \A g \in DOMAIN gen :
        gen[g].pc = "returned" =>
            /\ GenResult(gen[g]) # gen[g].payload
            /\ GenResult(gen[g]) = BackingSlots(gen[g].payload)

(***************************************************************************)
(* Properties of assign, unassign and list (SpecAvailability).  A step     *)
(* that takes asg from NoAssign to a call record is a call of insertIntoDB *)
(* with the arguments asg' records.                                        *)
(***************************************************************************)
Assigned == asg = NoAssign /\ asg' # NoAssign

\* the ids of a request that are no Schedule row
MissingIds(scheduleIds) == Range(scheduleIds) \ {sc.id : sc \in schedules}

\* the doctors rows of an email, read off the table
DoctorsOf(email) == {d \in doctors : d.email = email}

\* the doctor_schedules rows of a key in the link set ls
LinksOf(ls, doctorId, scheduleId) ==
    {l \in ls : l.doctorId = doctorId /\ l.scheduleId = scheduleId}

\* C15: insertIntoDB for an existing doctor with a duplicate-free array of
\* existing schedule ids does not fail, leaves every row that was there as it
\* was (isBooked and appointmentId included), adds exactly one unbooked row
\* for each pair that was missing, and the same call made again would add
\* nothing.
C15_Case ==
    /\ Assigned
    /\ DoctorsOf(asg'.email) # {}
    /\ NoDup(asg'.scheduleIds)
    /\ MissingIds(asg'.scheduleIds) = {}

C15_AssignIsIdempotent ==
    [][C15_Case =>
          \A d \in DoctorsOf(asg'.email) :
              /\ asg'.err = NoErr
              /\ doctorSchedules \subseteq doctorSchedules'
              /\ \A l \in doctorSchedules' \ doctorSchedules :
                    /\ l.doctorId = d.id
                    /\ l.scheduleId \in Range(asg'.scheduleIds)
                    /\ ~l.isBooked
              /\ \A id \in Range(asg'.scheduleIds) :
                    Cardinality(LinksOf(doctorSchedules', d.id, id)) = 1
              /\ asg'.count = Cardinality(doctorSchedules' \ doctorSchedules)
              /\ \A again \in Seqs(ScheduleIds) :
                    again = asg'.scheduleIds => NewLinks(d.id, again)' = {}]_vars

C15_Witness ==
    /\ asg.err = NoErr
    /\ Len(asg.scheduleIds) = 2
    /\ asg.count = 1
    /\ \E d \in DoctorsOf(asg.email) :
          \E id \in Range(asg.scheduleIds) :
              \E l \in LinksOf(doctorSchedules, d.id, id) : l.isBooked

\* C16: insertIntoDB for an existing doctor with an array that holds an id
\* of no Schedule row fails with InvalidReference, the error lists exactly
\* the missing ids, and no doctor_schedules row is created.
C16_InvalidIdsAreListed ==
    [][(/\ Assigned
        /\ DoctorsOf(asg'.email) # {}
        /\ MissingIds(asg'.scheduleIds) # {})
          => /\ asg'.err = "InvalidReference"
             /\ Range(asg'.detail) = MissingIds(asg'.scheduleIds)
             /\ doctorSchedules' = doctorSchedules]_vars

\* C17: insertIntoDB for an email of no doctor row fails with NotFound,
\* whatever the schedule ids are (the doctor is looked up first), and
\* leaves the doctor_schedules table unchanged.
C17_Case ==
    /\ Assigned
    /\ DoctorsOf(asg'.email) = {}

C17_UnknownDoctorFails ==
    [][C17_Case =>
          /\ asg'.err = "NotFound"
          /\ asg'.count = 0
          /\ doctorSchedules' = doctorSchedules]_vars

C17_Witness ==
    /\ asg # NoAssign
    /\ DoctorsOf(asg.email) = {}
    /\ MissingIds(asg.scheduleIds) # {}
    /\ asg.err = "NotFound"

\* C18: the delete of deleteFromDB, run when no row has the key
\* (doctorId, scheduleId), fails with NotFound and deletes nothing.
C18_Case(c) ==
    /\ del[c].pc = "delete"
    /\ del'[c].pc # "delete"
    /\ LinksOf(doctorSchedules, del[c].doctorId, del[c].scheduleId) = {}

C18_UnassignOfMissingFails ==
    [][\A c \in DOMAIN del :
          C18_Case(c) =>
              /\ del'[c].pc = "failed"
              /\ del'[c].err = "NotFound"
              /\ doctorSchedules' = doctorSchedules]_vars

C18_Witness ==
    \E c \in DOMAIN del :
        /\ del[c].pc = "failed"
        /\ del[c].err = "NotFound"
        /\ del[c].doctorId # 0
        /\ LinksOf(doctorSchedules, del[c].doctorId, del[c].scheduleId) = {}
        /\ doctorSchedules # {}

\* C19: the delete of deleteFromDB, run for a link (D, S) that is not
\* booked, deletes exactly that row, and no getMySchedule of D after it
\* finds a row of schedule S, whatever its filters.
C19_UnbookedUnassignDeletes ==
    [][\A c \in DOMAIN del :
          (/\ del[c].pc = "delete"
           /\ del'[c].pc # "delete"
           /\ \E l \in LinksOf(doctorSchedules, del[c].doctorId, del[c].scheduleId) :
                 ~l.isBooked)
            => /\ del'[c].pc = "done"
               /\ doctorSchedules' = doctorSchedules
                     \ LinksOf(doctorSchedules, del[c].doctorId, del[c].scheduleId)
               /\ \A filters \in ListFilters :
                     \A l \in FindMySchedules(filters)' :
                         l.scheduleId # del[c].scheduleId]_vars

\* C20: the page getMySchedule returns to doctor D holds rows of D only, and
\* the total it returns counts the rows of D that pass the filters.
C20_MyScheduleIsScoped ==
    last.op = "getMySchedule" =>
        LET mine == {l \in FindMySchedules(last.data) :
                        \E d \in DoctorsOf(last.email) : l.doctorId = d.id}
        IN /\ last.result.data \subseteq mine
           /\ last.result.meta.total = Cardinality(mine)

(***************************************************************************)
(* Further properties of createDoctor and updateIntoDB (SpecDoctor).       *)
(***************************************************************************)
\* the last call was a createDoctor for an email that had no user and no
\* doctor row
CreateOfFreshEmail ==
    /\ last.op = "create"
    /\ last.email \notin last.pre.users
    /\ \A d \in last.pre.doctors : d.email # last.email

\* C22: there is at most one doctor_specialties row per (doctor, specialty)
\* pair, and no call hands createMany a pair that exists already: the
\* composite key never has to reject an insert (UniqueViolation).
C22_NoDuplicateLinkInsert ==
    /\ \A a, b \in doctorSpecialties :
          (a.doctorId = b.doctorId /\ a.specialitiesId = b.specialitiesId) => a = b
    /\ last.op = "update" => last.err # "UniqueViolation"
    /\ CreateOfFreshEmail => last.err # "UniqueViolation"

\* C24: an update whose removeSpecialties and specialties both name a
\* specialty the doctor holds succeeds, and the doctor holds that specialty
\* afterwards (it is removed, then added again).
C24_Case ==
    /\ UpdateOfKnownDoctor
    /\ NoDup(last.add) /\ NoDup(last.rem)
    /\ Range(last.add) \subseteq specialties
    /\ Range(last.rem) \subseteq Held(last.pre.links, last.id)
    /\ Range(last.add) \cap Range(last.rem) # {}

C24_RemoveBeforeAdd ==
    C24_Case =>
        /\ last.err = NoErr
        /\ Range(last.add) \subseteq Held(doctorSpecialties, last.id)
        /\ Held(doctorSpecialties, last.id) =
              (Held(last.pre.links, last.id) \ Range(last.rem)) \cup Range(last.add)

C24_Witness ==
    /\ C24_Case
    /\ last.err = NoErr
    /\ \E x \in Range(last.add) \cap Range(last.rem) :
          /\ x \in Held(last.pre.links, last.id)
          /\ x \in Held(doctorSpecialties, last.id)

\* C25: updateIntoDB for an id that has no doctors row, or whose row is
\* soft-deleted, fails with NotFound and changes no row of any table.
C25_Case ==
    /\ last.op = "update"
    /\ \A d \in last.pre.doctors : d.id = last.id => d.isDeleted

C25_UpdateOfMissingDoctorFails ==
    C25_Case =>
        /\ last.err = "NotFound"
        /\ users = last.pre.users
        /\ doctors = last.pre.doctors
        /\ doctorSpecialties = last.pre.links

C25_Witness ==
    /\ C25_Case
    /\ \E d \in last.pre.doctors : d.id = last.id /\ d.isDeleted
    /\ DOMAIN last.data # {}
    /\ last.add # <<>>
    /\ Range(last.add) \subseteq specialties
    /\ last.err = "NotFound"

\* an id that is no Specialties row, besides the one the requests carry
OtherUnknownId == "spY"

\* the outcome the last call would have had on the same tables with the
\* specialty ids `ids`
OutcomeWith(ids) ==
    IF last.op = "update"
    THEN UpdateOutcome(last.pre.users, last.pre.doctors, last.pre.links,
                       last.id, last.data, ids, last.rem)
    ELSE CreateOutcome(last.pre.users, last.pre.doctors, last.pre.links,
                       last.email, last.data["appointmentFee"], ids)

\* C26: the add step of updateIntoDB and of createDoctor, given an array
\* with ids that are no Specialties rows, fails with InvalidReference, the
\* error lists exactly the unknown ids (all of them, also when there are
\* two), and no row is inserted.
C26_Case ==
    /\ \/ UpdateOfKnownDoctor /\ last.rem = <<>>
       \/ CreateOfFreshEmail
    /\ Range(last.add) \ specialties # {}

C26_AddOfUnknownFails ==
    C26_Case =>
        LET more == Append(last.add, OtherUnknownId)
            out == OutcomeWith(more)
        IN /\ last.err = "InvalidReference"
           /\ Range(last.detail) = Range(last.add) \ specialties
           /\ users = last.pre.users
           /\ doctors = last.pre.doctors
           /\ doctorSpecialties = last.pre.links
           /\ out.err = "InvalidReference"
           /\ Range(out.detail) = Range(more) \ specialties
           /\ out.links = last.pre.links

C26_Witness ==
    /\ C26_Case
    /\ Range(last.add) \cap specialties # {}
    /\ (Range(last.add) \cap specialties) \ Held(last.pre.links, last.id) # {}
    /\ last.err = "InvalidReference"
    /\ Cardinality(Range(OutcomeWith(Append(last.add, OtherUnknownId)).detail)) = 2

\* C29: a remove-only update whose removeSpecialties are all held by the
\* doctor, an id named twice included, deletes exactly those links; and
\* when the remove step fails, the list of missing ids it reports is not
\* empty.
C29_RemoveFailsOnlyOnMissing ==
    /\ (/\ UpdateOfKnownDoctor
        /\ last.add = <<>>
        /\ Range(last.rem) \subseteq Held(last.pre.links, last.id))
          => /\ last.err = NoErr
             /\ doctorSpecialties = last.pre.links
                   \ FindDoctorSpecialties(last.pre.links, last.id, last.rem)
    /\ (/\ UpdateOfKnownDoctor
        /\ last.add = <<>>
        /\ last.err = "InvalidReference")
          => last.detail # <<>>

\* C30: createDoctor with a non-empty array of existing specialty ids, an id
\* named twice included, commits the user, the doctor and one
\* doctor_specialties row per distinct id, and returns the doctor with
\* exactly those rows.
C30_CreateAddsDistinctIds ==
    (/\ CreateOfFreshEmail
     /\ last.add # <<>>
     /\ Range(last.add) \subseteq specialties)
      => /\ last.err = NoErr
         /\ last.email \in users
         /\ \E d \in doctors : d.id = last.id /\ d.email = last.email
         /\ Held(doctorSpecialties, last.id) = Range(last.add)
         /\ Held(last.result.doctorSpecialties, last.id) = Range(last.add)

C27_SlotsLastHalfAnHour ==
    \A sc \in schedules :
        /\ DateLt(sc.startDateTime, sc.endDateTime)
        /\ sc.endDateTime - sc.startDateTime = intervalTime

C27_Witness ==
    \E g \in DOMAIN gen :
        /\ gen[g].schedule # <<>>
        /\ Range(gen[g].schedule) \subseteq schedules
        /\ WindowMinutes(gen[g].payload) > intervalTime

\* C28: insertIntoDB for an existing doctor with an array whose ids are all
\* Schedule rows, an id named twice included, is accepted and leaves one
\* doctor_schedules row per distinct id.
C28_AssignAcceptsResolvingIds ==
    [][(/\ Assigned
        /\ DoctorsOf(asg'.email) # {}
        /\ MissingIds(asg'.scheduleIds) = {})
          => /\ asg'.err = NoErr
             /\ \A d \in DoctorsOf(asg'.email) :
                   \A id \in Range(asg'.scheduleIds) :
                       Cardinality(LinksOf(doctorSchedules', d.id, id)) = 1]_vars

\* C21: when two updateIntoDB calls for the same doctor add the same
\* existing specialty concurrently, one doctor_specialties row of the pair
\* results and neither call fails: no call with a duplicate-free array of
\* existing ids ends with the unique violation of the composite key.
C21_ConcurrentAddIsIdempotent ==
    /\ \A a, b \in doctorSpecialties :
          (a.doctorId = b.doctorId /\ a.specialitiesId = b.specialitiesId) => a = b
    /\ \A c \in DOMAIN upd :
          (/\ NoDup(upd[c].specialties)
           /\ Range(upd[c].specialties) \subseteq specialties)
            => /\ upd[c].err # "UniqueViolation"
               /\ upd[c].pc = "done" =>
                     Range(upd[c].specialties) \subseteq Held(doctorSpecialties, upd[c].id)

====
